---------------------------- MODULE Spec2Model ----------------------------
(***************************************************************************)
(* The HID report decoder and device session of the HyperX Cloud Flight    *)
(* Wireless reader (index.js), as a state machine.                         *)
(*                                                                         *)
(* Optional JavaScript values (null / undefined or a value) are sequences  *)
(* of length 0 or 1: None is null, Some(v) is v.                           *)
(***************************************************************************)
EXTENDS Integers, Sequences, FiniteSets

(* ------------------------------ bounds --------------------------------- *)

\* Longest enumeration HID.devices() returns in SpecSelect.
MaxDevices == 2
\* Last instant of the clock (Date.now(), in abstract milliseconds).
MaxTime == 4
\* Reports kept in the scenario log of SpecScenario.
MaxLog == 3
\* Events counted per run of equal decoded values, at most.
MaxRun == 2
\* Helpers the tray shell spawns, at most.
MaxLaunches == 3
\* Relaunch timers of the tray shell pending at a time, at most.
MaxPending == 2

(* --------------------------- program constants ------------------------- *)

VENDOR_ID == 2385
STATUS_USAGE == 771
SUPPORTED_PRODUCT_IDS == {5828, 5923}
STATUS_USAGEPAGES == {65363, 65424}

None == << >>
Some(v) == << v >>

Byte == 0 .. 255

(* ----------------------------- strings --------------------------------- *)
\* A product name is a sequence of one-character strings.

Upper == << "A", "B", "C", "D", "E", "F", "G", "H", "I", "J", "K", "L", "M",
            "N", "O", "P", "Q", "R", "S", "T", "U", "V", "W", "X", "Y", "Z" >>
Lower == << "a", "b", "c", "d", "e", "f", "g", "h", "i", "j", "k", "l", "m",
            "n", "o", "p", "q", "r", "s", "t", "u", "v", "w", "x", "y", "z" >>

\* String.prototype.toLowerCase, one character.
toLowerCaseChar(c) ==
    IF \E i \in 1 .. Len(Upper) : Upper[i] = c
    THEN Lower[CHOOSE i \in 1 .. Len(Upper) : Upper[i] = c]
    ELSE c

toLowerCase(s) == [i \in 1 .. Len(s) |-> toLowerCaseChar(s[i])]

\* String.prototype.includes
includes(s, t) ==
    \E k \in 0 .. (Len(s) - Len(t)) : SubSeq(s, k + 1, k + Len(t)) = t

\* 'cloud flight wireless'
MarketingName ==
    << "c", "l", "o", "u", "d", " ", "f", "l", "i", "g", "h", "t", " ",
       "w", "i", "r", "e", "l", "e", "s", "s" >>

\* d.product || ''
productOrEmpty(d) == IF d.product = None THEN << >> ELSE d.product[1]

(* ------------------------- device selection ---------------------------- *)

vendorMatches(d) == d.vendorId = VENDOR_ID
knownProduct(d) == d.productId \in SUPPORTED_PRODUCT_IDS
nameMatches(d) == includes(toLowerCase(productOrEmpty(d)), MarketingName)

\* HID.devices().filter(vendor)
allOf(hid) == SelectSeq(hid, vendorMatches)

\* A selection decided per candidate: every interface with a known product
\* id or a matching name.
selectPerCandidate(hid) ==
    SelectSeq(allOf(hid), LAMBDA d : knownProduct(d) \/ nameMatches(d))

\* The selected interfaces: known product ids, else, when there are none,
\* the product-name match.
selectDevices(hid) ==
    LET byId == SelectSeq(allOf(hid), knownProduct)
    IN  IF Len(byId) = 0 THEN SelectSeq(allOf(hid), nameMatches) ELSE byId

\* Array.prototype.find as an index: the first element of s that is in the
\* set ok, 0 when there is none.
find(s, ok) ==
    IF \E i \in 1 .. Len(s) : s[i] \in ok
    THEN CHOOSE i \in 1 .. Len(s) :
            s[i] \in ok /\ \A j \in 1 .. (i - 1) : s[j] \notin ok
    ELSE 0

Range(s) == {s[i] : i \in 1 .. Len(s)}

isStatusStrict(d) == d.usage = STATUS_USAGE /\ d.usagePage \in STATUS_USAGEPAGES
isStatusLoose(d) == d.usage = STATUS_USAGE

\* bootstrapDeviceInfo: index into devs of the status interface, 0 if none.
statusInfo(devs) ==
    LET strict == find(devs, {d \in Range(devs) : isStatusStrict(d)})
    IN  IF strict # 0 THEN strict
        ELSE find(devs, {d \in Range(devs) : isStatusLoose(d)})

(* ----------------------------- descriptors ----------------------------- *)
\* A DeviceDescriptor as HID.devices() returns it. product is optional;
\* usagePage 0 stands for a host that reports no usage page.

Descriptor(vendorId, productId, product, usage, usagePage, path) ==
    [vendorId |-> vendorId, productId |-> productId, product |-> product,
     usage |-> usage, usagePage |-> usagePage, path |-> path]

\* "HyperX Cloud Flight Wireless"
NameFlight ==
    << "H", "y", "p", "e", "r", "X", " ", "C", "l", "o", "u", "d", " ",
       "F", "l", "i", "g", "h", "t", " ", "W", "i", "r", "e", "l", "e", "s", "s" >>
\* "HyperX Cloud Alpha"
NameAlpha ==
    << "H", "y", "p", "e", "r", "X", " ", "C", "l", "o", "u", "d", " ",
       "A", "l", "p", "h", "a" >>

DevStatus == Descriptor(2385, 5828, Some(NameFlight), 771, 65363, "p1")
DevPowerMute == Descriptor(2385, 5828, Some(NameFlight), 1, 65472, "p2")
DevVolume == Descriptor(2385, 5923, None, 1, 12, "p3")
DevStatusNoPage == Descriptor(2385, 5923, Some(NameFlight), 771, 0, "p4")
DevStatusAlt == Descriptor(2385, 5923, Some(NameFlight), 771, 65424, "p5")
DevByName == Descriptor(2385, 9999, Some(NameFlight), 771, 65424, "p6")
DevOtherName == Descriptor(2385, 9999, Some(NameAlpha), 1, 65472, "p7")
DevNoName == Descriptor(2385, 9999, None, 771, 65363, "p8")
DevOtherVendor == Descriptor(1133, 5828, Some(NameFlight), 771, 65363, "p9")

\* The hosts a session is constructed on in Spec.
Hosts ==
    { << DevStatus, DevPowerMute >>,
      << DevPowerMute, DevVolume >>,
      << DevStatusNoPage, DevStatusAlt >>,
      << DevOtherName, DevByName >>,
      << DevOtherVendor, DevNoName >> }

\* The interfaces an enumeration of SpecSelect is drawn from.
Catalogue ==
    { DevStatus, DevPowerMute, DevByName, DevOtherName, DevNoName,
      DevOtherVendor }

SeqsUpTo(S, n) == UNION {[1 .. k -> S] : k \in 0 .. n}
Enumerations == SeqsUpTo(Catalogue, MaxDevices)

(* ------------------------------- events -------------------------------- *)
\* One emitted event: the channel, and its value as a word (val), a number
\* (num) or raw bytes (raw); the fields a channel does not use are empty.

Ev(ch, val, num, raw) == [ch |-> ch, val |-> val, num |-> num, raw |-> raw]
EvPower(p) == Ev("power", p, 0, << >>)
EvMuted(b) == Ev("muted", IF b THEN "true" ELSE "false", 0, << >>)
EvVolume(d) == Ev("volume", d, 0, << >>)
EvCharging(b) == Ev("charging", IF b THEN "true" ELSE "false", 0, << >>)
\* A battery event carries the percentage; val is "null" when it carries null.
EvBattery(pct) ==
    IF pct = None THEN Ev("battery", "null", 0, << >>)
    ELSE Ev("battery", "", pct[1], << >>)
EvUnknown(data) == Ev("unknown", "", 0, data)
EvError(what) == Ev("error", what, 0, << >>)

onChannel(evs, ch) == SelectSeq(evs, LAMBDA e : e.ch = ch)

(* ------------------------------ decoding ------------------------------- *)
\* data[k] of the code is byte k + 1 here.

isPowerOff(data) == data[1] = 100 /\ data[2] = 3
isPowerOn(data) == data[1] = 100 /\ data[2] = 1
isMuted(data) == data[1] = 101 /\ data[2] = 4

\* const dir = v === 0x01 ? 'up' : v === 0x02 ? 'down' : null
volumeDir(data) ==
    IF data[2] = 1 THEN Some("up")
    ELSE IF data[2] = 2 THEN Some("down") ELSE None

chargeStateOf(data) == data[4]

\* data[4] || chargeState
magicValueOf(data) == IF data[5] # 0 THEN data[5] ELSE data[4]

\* A test of the charge state that takes every state from 0x10 up.
isChargingStateFrom(chargeState) == chargeState >= 16

\* if (chargeState === 0x10), line 184
isChargingState(chargeState) == chargeState = 16

isCharging(magicValue) == magicValue >= 20

\* The bands of chargeState 0x0f, lines 194-202.
bands0f(magicValue) ==
    IF magicValue >= 130 THEN Some(100)
    ELSE IF magicValue < 130 /\ magicValue >= 120 THEN Some(95)
    ELSE IF magicValue < 120 /\ magicValue >= 100 THEN Some(90)
    ELSE IF magicValue < 100 /\ magicValue >= 70 THEN Some(85)
    ELSE IF magicValue < 70 /\ magicValue >= 50 THEN Some(80)
    ELSE IF magicValue < 50 /\ magicValue >= 20 THEN Some(75)
    ELSE IF magicValue < 20 /\ magicValue > 0 THEN Some(70)
    ELSE None

\* The bands of chargeState 0x0e with two of the percentages exchanged.
bands0eExchanged(magicValue) ==
    IF magicValue < 250 /\ magicValue > 240 THEN Some(65)
    ELSE IF magicValue < 240 /\ magicValue >= 220 THEN Some(60)
    ELSE IF magicValue < 220 /\ magicValue >= 208 THEN Some(55)
    ELSE IF magicValue < 208 /\ magicValue >= 200 THEN Some(50)
    ELSE IF magicValue < 200 /\ magicValue >= 190 THEN Some(45)
    ELSE IF magicValue < 190 /\ magicValue >= 180 THEN Some(40)
    ELSE IF magicValue < 179 /\ magicValue >= 169 THEN Some(30)
    ELSE IF magicValue < 169 /\ magicValue >= 159 THEN Some(35)
    ELSE IF magicValue < 159 /\ magicValue >= 148 THEN Some(25)
    ELSE IF magicValue < 148 /\ magicValue >= 119 THEN Some(20)
    ELSE IF magicValue < 119 /\ magicValue >= 90 THEN Some(15)
    ELSE IF magicValue < 90 THEN Some(10)
    ELSE None

\* The bands of chargeState 0x0e, lines 204-217.
bands0e(magicValue) ==
    IF magicValue < 250 /\ magicValue > 240 THEN Some(65)
    ELSE IF magicValue < 240 /\ magicValue >= 220 THEN Some(60)
    ELSE IF magicValue < 220 /\ magicValue >= 208 THEN Some(55)
    ELSE IF magicValue < 208 /\ magicValue >= 200 THEN Some(50)
    ELSE IF magicValue < 200 /\ magicValue >= 190 THEN Some(45)
    ELSE IF magicValue < 190 /\ magicValue >= 180 THEN Some(40)
    ELSE IF magicValue < 179 /\ magicValue >= 169 THEN Some(35)
    ELSE IF magicValue < 169 /\ magicValue >= 159 THEN Some(30)
    ELSE IF magicValue < 159 /\ magicValue >= 148 THEN Some(25)
    ELSE IF magicValue < 148 /\ magicValue >= 119 THEN Some(20)
    ELSE IF magicValue < 119 /\ magicValue >= 90 THEN Some(15)
    ELSE IF magicValue < 90 THEN Some(10)
    ELSE None

\* The value calculatePercentage returns: Some(percentage) or None (null).
calculatePercentage(chargeState, magicValue) ==
    IF isChargingState(chargeState) /\ magicValue <= 11 THEN Some(100)
    ELSE IF chargeState = 15 THEN bands0f(magicValue)
    ELSE IF chargeState = 14 THEN bands0e(magicValue)
    ELSE None

\* A handler that does not test the percentage for null.
isDeterminedAlways(percentage) == TRUE

\* if (percentage != null)
isDetermined(percentage) == percentage # None

\* A guard that never suppresses.
emitsAlways(dedupeOn, value, last) == TRUE

\* if (!dedupe || value !== last): the guard of power, muted and charging.
emits(dedupeOn, value, last) == ~dedupeOn \/ Some(value) # last

\* A battery guard whose heartbeat waits for more than the interval.
batteryEmitsLate(dedupeOn, percentage, last, lastTs, t, minInterval) ==
    LET changed == percentage # last
        timedOut == t - lastTs > minInterval
    IN  ~dedupeOn \/ changed \/ timedOut

\* A battery guard that throttles whether or not dedupe is on.
batteryEmitsThrottled(dedupeOn, percentage, last, lastTs, t, minInterval) ==
    percentage # last \/ t - lastTs >= minInterval

\* if (!dedupe || changed || timedOut): the guard of battery.
batteryEmits(dedupeOn, percentage, last, lastTs, t, minInterval) ==
    LET changed == percentage # last
        timedOut == t - lastTs >= minInterval
    IN  ~dedupeOn \/ changed \/ timedOut

(* ------------------------------- state --------------------------------- *)

VARIABLES
    phase,                \* "new" | "running" | "closed" | "failed" (threw)
    dedupe,               \* option dedupe
    batteryMinIntervalMs, \* option batteryMinIntervalMs
    devices,              \* the selected descriptors
    handles,              \* every HID handle opened so far: [path, open]
    streams,              \* per selected descriptor: its handle's index, 0 if the open threw
    interval,             \* TRUE iff the variable interval holds a timer
    timers,               \* number of live repeating timers
    bootstrapDevice,      \* None or Some(index of the status handle)
    lastBattery, lastBatteryEmitTs, lastCharging, lastPower, lastMuted,
    now,                  \* Date.now()
    \* what an observer of the session sees
    inp,                  \* the operation that ran last and its input
    emitted,              \* the events it emitted, in order
    wake,                 \* what its bootstrap() call came to, "none" if it made none
    seen,                 \* per channel, the value decoded last
    shown,                \* per channel, the value emitted last
    run,                  \* per channel, events emitted since the decoded value last changed
    lastEv,               \* the last battery event: its value, its time, and
                          \* whether the battery event before it had its value
    log,                  \* the first logCap reports with their events and timer state
    logCap,
    probe,                \* the status report under test in SpecBattery
    \* the tray shell (tray-hyperx/main.js)
    appState,             \* "starting" | "ready" (whenReady ran) | "exited"
    quitting,             \* let quitting
    child,                \* let child: 0 (null) or the helper spawned last
    helpers,              \* every helper spawned so far: [proc, killed, errored, exited]
    idx,                  \* let idx of startHelper
    candidates,           \* candidates.length
    pending               \* number of setTimeout(launch, ...) timers not yet fired

program ==
    << phase, dedupe, batteryMinIntervalMs, devices, handles, streams, interval,
       timers, bootstrapDevice, lastBattery, lastBatteryEmitTs, lastCharging,
       lastPower, lastMuted, now >>
observer == << inp, emitted, wake, seen, shown, run, lastEv, log, logCap, probe >>
shell == << appState, quitting, child, helpers, idx, candidates, pending >>
vars == << program, observer, shell >>

options == << dedupe, batteryMinIntervalMs >>
session == << devices, handles, streams >>
scheduler == << interval, timers, bootstrapDevice >>
dedupeState ==
    << lastBattery, lastBatteryEmitTs, lastCharging, lastPower, lastMuted >>
ghosts == << seen, shown, run, lastEv >>

Channels == {"power", "muted", "charging"}
Input(op, dev, data, hid) == [op |-> op, dev |-> dev, data |-> data, hid |-> hid]

IntervalChoices == {2, 3}

InitWith(caps, probes, intervals) ==
    /\ phase = "new"
    /\ dedupe \in BOOLEAN
    /\ batteryMinIntervalMs \in intervals
    /\ devices = << >>
    /\ handles = << >>
    /\ streams = << >>
    /\ interval = FALSE
    /\ timers = 0
    /\ bootstrapDevice = None
    /\ lastBattery = None
    /\ lastBatteryEmitTs = 0
    /\ lastCharging = None
    /\ lastPower = None
    /\ lastMuted = None
    /\ now = 0
    /\ inp = Input("none", 0, << >>, << >>)
    /\ emitted = << >>
    /\ wake = "none"
    /\ seen = [ch \in Channels |-> None]
    /\ shown = [ch \in Channels |-> None]
    /\ run = [ch \in Channels |-> 0]
    /\ lastEv = None
    /\ log = << >>
    /\ logCap \in caps
    /\ probe \in probes
    /\ appState = "starting"
    /\ quitting = FALSE
    /\ child = 0
    /\ helpers = << >>
    /\ idx = 0
    /\ candidates = 0
    /\ pending = 0

(* ----------------------------- bootstrap ------------------------------- *)

Handle(path) == [path |-> path, open |-> TRUE]

\* A wake-up write that stops the timer when the write fails.
wakeUpGivesUp(iv, tm, bd, hs, writeOk) ==
    [interval |-> iv /\ writeOk, timers |-> IF writeOk THEN tm ELSE tm - 1,
     bootstrapDevice |-> bd, handles |-> hs,
     emitted |-> IF writeOk THEN << >> ELSE << EvError("write") >>,
     wake |-> IF writeOk THEN "written" ELSE "write-failed"]

\* The wake-up write of bootstrap(), lines 103-111.
wakeUp(iv, tm, bd, hs, writeOk) ==
    [interval |-> iv, timers |-> tm, bootstrapDevice |-> bd, handles |-> hs,
     emitted |-> IF writeOk THEN << >> ELSE << EvError("write") >>,
     wake |-> IF writeOk THEN "written" ELSE "write-failed"]

\* A bootstrap() that starts a timer on every call.
armTimerAlways(iv, tm) == [interval |-> TRUE, timers |-> tm + 1]

\* if (!interval) interval = setInterval(bootstrap, updateDelay)
armTimer(iv, tm) ==
    [interval |-> TRUE, timers |-> IF iv THEN tm ELSE tm + 1]

\* A bootstrap() that opens the status handle on every call.
needsStatusHandleAlways(bd) == TRUE

\* if (!bootstrapDevice): whether bootstrap() looks up and opens the status handle
needsStatusHandle(bd) == bd = None

\* A bootstrap() that looks the status interface up first and arms the timer
\* only when there is one.
bootstrapArmsLate(iv, tm, bd, hs, devs, openOk, writeOk) ==
    LET t == armTimer(iv, tm)
        info == statusInfo(devs)
    IN  IF needsStatusHandle(bd) /\ info = 0
        THEN [interval |-> iv, timers |-> tm, bootstrapDevice |-> bd,
              handles |-> hs, emitted |-> << EvError("status-not-found") >>,
              wake |-> "not-found"]
        ELSE IF needsStatusHandle(bd) /\ ~openOk
        THEN [interval |-> t.interval, timers |-> t.timers,
              bootstrapDevice |-> bd, handles |-> hs,
              emitted |-> << EvError("open") >>, wake |-> "open-failed"]
        ELSE IF needsStatusHandle(bd)
        THEN wakeUp(t.interval, t.timers, Some(Len(hs) + 1),
                    Append(hs, Handle(devs[info].path)), writeOk)
        ELSE wakeUp(t.interval, t.timers, bd, hs, writeOk)

\* bootstrap(): what it leaves of the scheduler and the handles, given whether
\* the open of the status handle and the write succeed.
bootstrap(iv, tm, bd, hs, devs, openOk, writeOk) ==
    LET t == armTimer(iv, tm)
        info == statusInfo(devs)
        stay(events, outcome) ==
            [interval |-> t.interval, timers |-> t.timers,
             bootstrapDevice |-> bd, handles |-> hs, emitted |-> events,
             wake |-> outcome]
    IN  IF needsStatusHandle(bd)
        THEN IF info = 0 THEN stay(<< EvError("status-not-found") >>, "not-found")
             ELSE IF ~openOk THEN stay(<< EvError("open") >>, "open-failed")
             ELSE wakeUp(t.interval, t.timers, Some(Len(hs) + 1),
                         Append(hs, Handle(devs[info].path)), writeOk)
        ELSE wakeUp(t.interval, t.timers, bd, hs, writeOk)

\* A power-off handler that leaves the timer alone.
disarmForgotten(iv, tm) == [interval |-> iv, timers |-> tm]

\* clearInterval(interval); interval = null
disarm(iv, tm) ==
    [interval |-> FALSE, timers |-> IF iv THEN tm - 1 ELSE tm]

(* ------------------------------ observer ------------------------------- *)

word(b) == IF b THEN "true" ELSE "false"
isStatusReport(data) == Len(data) \in {15, 20}

\* The value a report decodes to on a channel, None when it decodes to none.
decoded(ch, data) ==
    IF ch = "power" /\ Len(data) = 2 /\ isPowerOff(data) THEN Some("off")
    ELSE IF ch = "power" /\ Len(data) = 2 /\ isPowerOn(data) THEN Some("on")
    ELSE IF ch = "muted" /\ Len(data) = 2 /\ ~isPowerOff(data) /\ ~isPowerOn(data)
         THEN Some(word(isMuted(data)))
    ELSE IF ch = "charging" /\ isStatusReport(data) /\ chargeStateOf(data) = 16
         THEN Some(word(isCharging(magicValueOf(data))))
    ELSE None

Min(a, b) == IF a < b THEN a ELSE b

Observe(op, dev, data, hid, evs, outcome) ==
    /\ inp' = Input(op, dev, data, hid)
    /\ emitted' = evs
    /\ wake' = outcome
    /\ seen' = [ch \in Channels |->
                  IF decoded(ch, data) = None THEN seen[ch] ELSE decoded(ch, data)]
    /\ shown' = [ch \in Channels |->
                  LET es == onChannel(evs, ch)
                  IN  IF es = << >> THEN shown[ch] ELSE Some(es[Len(es)].val)]
    /\ run' = [ch \in Channels |->
                  LET n == Len(onChannel(evs, ch))
                  IN  IF decoded(ch, data) = None THEN Min(run[ch] + n, MaxRun)
                      ELSE IF decoded(ch, data) = seen[ch]
                           THEN Min(run[ch] + n, MaxRun)
                      ELSE Min(n, MaxRun)]
    /\ lastEv' = LET es == onChannel(evs, "battery")
                 IN  IF es = << >> THEN lastEv
                     ELSE Some([val |-> es[Len(es)].num, at |-> now,
                                again |-> /\ lastEv # None
                                          /\ lastEv[1].val = es[Len(es)].num])
    /\ log' = IF op = "data" /\ Len(log) < logCap
              THEN Append(log, [dev |-> dev, data |-> data, emitted |-> evs,
                                armed |-> interval'])
              ELSE log
    /\ UNCHANGED << logCap, probe, shell >>

(* ------------------------------ actions -------------------------------- *)

\* A loop over the interfaces that the first failed open ends: the interfaces
\* after it are not opened.
openAllStopsAtFailure(devs, hs, ok) ==
    LET F[k \in 0 .. Len(devs)] ==
            IF k = 0 THEN [handles |-> hs, streams |-> << >>, emitted |-> << >>]
            ELSE IF ok[k] /\ F[k - 1].emitted = << >>
                 THEN [handles |-> Append(F[k - 1].handles, Handle(devs[k].path)),
                       streams |-> Append(F[k - 1].streams, Len(F[k - 1].handles) + 1),
                       emitted |-> F[k - 1].emitted]
                 ELSE [handles |-> F[k - 1].handles,
                       streams |-> Append(F[k - 1].streams, 0),
                       emitted |-> << EvError("open") >>]
    IN  F[Len(devs)]

\* devices.forEach: open every selected interface; ok[i] tells whether the
\* open of devs[i] succeeds. Gives the handles, the streams and the events.
openAll(devs, hs, ok) ==
    LET F[k \in 0 .. Len(devs)] ==
            IF k = 0 THEN [handles |-> hs, streams |-> << >>, emitted |-> << >>]
            ELSE IF ok[k]
                 THEN [handles |-> Append(F[k - 1].handles, Handle(devs[k].path)),
                       streams |-> Append(F[k - 1].streams, Len(F[k - 1].handles) + 1),
                       emitted |-> F[k - 1].emitted]
                 ELSE [handles |-> F[k - 1].handles,
                       streams |-> Append(F[k - 1].streams, 0),
                       emitted |-> Append(F[k - 1].emitted, EvError("open"))]
    IN  F[Len(devs)]

\* module.exports(options) on the enumeration hid.
Construct(hid, openOk, writeOk, ok) ==
    /\ phase = "new"
    /\ LET devs == selectDevices(hid)
       IN  IF Len(devs) = 0
           THEN /\ phase' = "failed"
                /\ UNCHANGED << session, scheduler >>
                /\ Observe("construct", 0, << >>, hid, << >>, "none")
           ELSE \E b \in {bootstrap(interval, timers, bootstrapDevice, handles,
                                      devs, openOk, writeOk)} :
                \E o \in {openAll(devs, b.handles, ok)} :
                    /\ phase' = "running"
                    /\ devices' = devs
                    /\ handles' = o.handles
                    /\ streams' = o.streams
                    /\ interval' = b.interval
                    /\ timers' = b.timers
                    /\ bootstrapDevice' = b.bootstrapDevice
                    /\ Observe("construct", 0, << >>, hid,
                               b.emitted \o o.emitted, b.wake)
    /\ UNCHANGED << options, dedupeState, now >>

\* The outcomes of an open or a write: on any host, and on one where every
\* open and write succeeds.
AnyOutcome == BOOLEAN
Healthy == {TRUE}

ConstructOn(hosts, outcomes) ==
    \E hid \in hosts : \E openOk, writeOk \in outcomes :
        \E ok \in [1 .. Len(selectDevices(hid)) -> outcomes] :
            Construct(hid, openOk, writeOk, ok)

\* The repeating timer fires: bootstrap().
Tick(openOk, writeOk) ==
    /\ phase \in {"running", "closed"}
    /\ timers > 0
    /\ \E b \in {bootstrap(interval, timers, bootstrapDevice, handles, devices,
                          openOk, writeOk)} :
           /\ interval' = b.interval
           /\ timers' = b.timers
           /\ bootstrapDevice' = b.bootstrapDevice
           /\ handles' = b.handles
           /\ Observe("tick", 0, << >>, << >>, b.emitted, b.wake)
    /\ UNCHANGED << phase, options, devices, streams, dedupeState, now >>

\* A power-on case that calls bootstrap() inside the dedupe test.
callsBootstrapWhenEmitted(dedupeOn, last) == ~dedupeOn \/ last # Some("on")

\* Power on calls bootstrap() before the dedupe test (line 153), whatever
\* the last power value.
callsBootstrap(dedupeOn, last) == TRUE

\* A switch in which case 0x0f is missing, so that only reports of 20 bytes
\* reach the status case.
caseOfWithout0f(data) ==
    IF Len(data) = 2 THEN "powerMute"
    ELSE IF Len(data) = 5 THEN "volume"
    ELSE IF Len(data) = 20 THEN "status"
    ELSE "default"

\* switch (data.length): the case a report falls to.
caseOf(data) ==
    IF Len(data) = 2 THEN "powerMute"
    ELSE IF Len(data) = 5 THEN "volume"
    ELSE IF Len(data) \in {15, 20} THEN "status"
    ELSE "default"

\* What device.on('data') leaves, as a record of everything it may change.
onData(data, openOk, writeOk) ==
    LET keep == [interval |-> interval, timers |-> timers,
                 bootstrapDevice |-> bootstrapDevice, handles |-> handles,
                 lastBattery |-> lastBattery,
                 lastBatteryEmitTs |-> lastBatteryEmitTs,
                 lastCharging |-> lastCharging, lastPower |-> lastPower,
                 lastMuted |-> lastMuted, emitted |-> << >>, wake |-> "none"]
    IN  CASE caseOf(data) = "powerMute" ->
               IF isPowerOff(data)
               THEN LET d == disarm(interval, timers)
                        e == emits(dedupe, "off", lastPower)
                    IN  [keep EXCEPT !.interval = d.interval,
                                     !.timers = d.timers,
                                     !.emitted = IF e THEN << EvPower("off") >>
                                                 ELSE << >>,
                                     !.lastPower = IF e THEN Some("off")
                                                   ELSE lastPower]
               ELSE IF isPowerOn(data)
               THEN LET b == IF callsBootstrap(dedupe, lastPower)
                             THEN bootstrap(interval, timers, bootstrapDevice,
                                            handles, devices, openOk, writeOk)
                             ELSE keep
                        e == emits(dedupe, "on", lastPower)
                    IN  [keep EXCEPT !.interval = b.interval,
                                     !.timers = b.timers,
                                     !.bootstrapDevice = b.bootstrapDevice,
                                     !.handles = b.handles,
                                     !.wake = b.wake,
                                     !.emitted = b.emitted \o
                                        (IF e THEN << EvPower("on") >> ELSE << >>),
                                     !.lastPower = IF e THEN Some("on")
                                                   ELSE lastPower]
               ELSE LET m == isMuted(data)
                        e == emits(dedupe, m, lastMuted)
                    IN  [keep EXCEPT !.emitted = IF e THEN << EvMuted(m) >>
                                                 ELSE << >>,
                                     !.lastMuted = IF e THEN Some(m)
                                                   ELSE lastMuted]
          [] caseOf(data) = "volume" ->
               LET dir == volumeDir(data)
               IN  [keep EXCEPT !.emitted = IF dir # None
                                            THEN << EvVolume(dir[1]) >>
                                            ELSE << >>]
          [] caseOf(data) = "status" ->
               LET chargeState == chargeStateOf(data)
                   magicValue == magicValueOf(data)
                   c == isCharging(magicValue)
                   ce == isChargingState(chargeState) /\ emits(dedupe, c, lastCharging)
                   percentage == calculatePercentage(chargeState, magicValue)
                   be == /\ isDetermined(percentage)
                         /\ batteryEmits(dedupe, percentage, lastBattery,
                                         lastBatteryEmitTs, now,
                                         batteryMinIntervalMs)
               IN  [keep EXCEPT !.emitted =
                                    (IF ce THEN << EvCharging(c) >> ELSE << >>)
                                    \o (IF be THEN << EvBattery(percentage) >>
                                        ELSE << >>),
                                !.lastCharging = IF ce THEN Some(c)
                                                 ELSE lastCharging,
                                !.lastBattery = IF be THEN percentage
                                                ELSE lastBattery,
                                !.lastBatteryEmitTs = IF be THEN now
                                                      ELSE lastBatteryEmitTs]
          [] OTHER -> [keep EXCEPT !.emitted = << EvUnknown(data) >>]

\* A listener that, on every interface but the first, keeps the last values
\* it records in variables of its own.
handlerOwnState(i, data, openOk, writeOk) ==
    IF i = 1 THEN onData(data, openOk, writeOk)
    ELSE [onData(data, openOk, writeOk) EXCEPT
              !.lastBattery = lastBattery,
              !.lastBatteryEmitTs = lastBatteryEmitTs,
              !.lastCharging = lastCharging,
              !.lastPower = lastPower,
              !.lastMuted = lastMuted]

\* The 'data' listener devices.forEach registers for interface i: the same
\* function for every interface, over the variables of the one closure.
handler(i, data, openOk, writeOk) == onData(data, openOk, writeOk)

\* Whether stream i delivers reports: it was opened and not closed.
delivers(i) ==
    /\ i \in 1 .. Len(streams)
    /\ streams[i] # 0
    /\ handles[streams[i]].open

\* Interface i delivers the report data.
OnData(i, data, openOk, writeOk) ==
    /\ phase \in {"running", "closed"}
    /\ delivers(i)
    /\ \E r \in {handler(i, data, openOk, writeOk)} :
           /\ interval' = r.interval
           /\ timers' = r.timers
           /\ bootstrapDevice' = r.bootstrapDevice
           /\ handles' = r.handles
           /\ lastBattery' = r.lastBattery
           /\ lastBatteryEmitTs' = r.lastBatteryEmitTs
           /\ lastCharging' = r.lastCharging
           /\ lastPower' = r.lastPower
           /\ lastMuted' = r.lastMuted
           /\ Observe("data", i, data, << >>, r.emitted, r.wake)
    /\ UNCHANGED << phase, options, devices, streams, now >>

\* Only a power-on report opens or writes.
outcomesFor(data, outcomes) ==
    IF Len(data) = 2 /\ isPowerOn(data) THEN outcomes ELSE {TRUE}

DataFrom(reports, outcomes) ==
    \E i \in 1 .. Len(streams) : \E data \in reports :
        \E openOk, writeOk \in outcomesFor(data, outcomes) :
            OnData(i, data, openOk, writeOk)

\* A handle reports a low-level failure: device.on('error').
IoError ==
    /\ phase \in {"running", "closed"}
    /\ \E h \in 1 .. Len(handles) : handles[h].open
    /\ Observe("ioerror", 0, << >>, << >>, << EvError("io") >>, "none")
    /\ UNCHANGED program

\* The handles the 'close' listeners close: those of the opened streams.
closedByShutdown == {streams[i] : i \in 1 .. Len(streams)} \ {0}

\* emitter.emit('close')
Shutdown ==
    /\ phase \in {"running", "closed"}
    /\ phase' = "closed"
    /\ handles' = [h \in 1 .. Len(handles) |->
                     IF h \in closedByShutdown
                     THEN [handles[h] EXCEPT !.open = FALSE]
                     ELSE handles[h]]
    /\ Observe("close", 0, << >>, << >>, << >>, "none")
    /\ UNCHANGED << options, devices, streams, scheduler, dedupeState, now >>

\* Time passes.
Advance ==
    /\ phase \in {"running", "closed"}
    /\ now < MaxTime
    /\ now' = now + 1
    /\ Observe("advance", 0, << >>, << >>, << >>, "none")
    /\ UNCHANGED << phase, options, session, scheduler, dedupeState >>

(* ------------------------------ reports -------------------------------- *)

PowerOn == << 100, 1 >>
PowerOff == << 100, 3 >>
MuteOn == << 101, 4 >>
MuteOff == << 101, 0 >>
VolumeUp == << 0, 1, 0, 0, 0 >>
VolumeDown == << 0, 2, 0, 0, 0 >>
VolumeNone == << 0, 3, 0, 0, 0 >>
Unknown7 == << 1, 2, 3, 4, 5, 6, 7 >>

\* A status report of len bytes with data[3] = b3 and data[4] = b4.
StatusReport(len, b3, b4) ==
    [k \in 1 .. len |-> IF k = 4 THEN b3 ELSE IF k = 5 THEN b4 ELSE 0]

PowerReports == {PowerOn, PowerOff, MuteOn, MuteOff}
Reports ==
    PowerReports \cup
    { VolumeUp, VolumeNone, Unknown7,
      StatusReport(15, 16, 30), StatusReport(20, 16, 5),
      StatusReport(15, 15, 60), StatusReport(15, 17, 60) }

(* ----------------------------- tray shell ------------------------------ *)

\* candidates.length: five entries, the first of which filter(Boolean) drops
\* when NVM_SYMLINK is not set.
CandidateCounts == {4, 5}

\* The helper spawn() returns: its process runs, or the spawn failed and its
\* 'error' event is emitted on the next tick, before any other event.
spawned(spawnOk) ==
    [proc |-> IF spawnOk THEN "running" ELSE "failed",
     killed |-> FALSE, errored |-> ~spawnOk, exited |-> FALSE]

\* child.on('error'): idx = (idx + 1) % candidates.length;
\* setTimeout(launch, 1000)
onError(ix, n, pd) == [idx |-> (ix + 1) % n, pending |-> pd + 1]

\* child.on('exit'): if (!quitting) setTimeout(launch, 5000)
onExit(q, pd) == IF ~q THEN pd + 1 ELSE pd

\* launch(), with pd timers pending when it is called, on n candidates.
launch(spawnOk, n, pd) ==
    /\ Len(helpers) < MaxLaunches
    /\ helpers' = Append(helpers, spawned(spawnOk))
    /\ child' = Len(helpers) + 1
    /\ IF spawnOk
       THEN idx' = idx /\ pending' = pd
       ELSE idx' = onError(idx, n, pd).idx /\ pending' = onError(idx, n, pd).pending

\* app.whenReady().then(...): startHelper() calls launch().
StartHelper(n, spawnOk) ==
    /\ appState = "starting"
    /\ appState' = "ready"
    /\ candidates' = n
    /\ launch(spawnOk, n, pending)
    /\ UNCHANGED << quitting, program, observer >>

\* A timer set by setTimeout(launch, ...) fires.
TimerFires(spawnOk) ==
    /\ appState = "ready"
    /\ pending > 0
    /\ launch(spawnOk, candidates, pending - 1)
    /\ UNCHANGED << appState, quitting, candidates, program, observer >>

\* Helper c emits 'exit': its process ended by itself, or was killed. A
\* helper whose spawn failed emits 'error' only.
ChildExit(c) ==
    /\ appState = "ready"
    /\ c \in 1 .. Len(helpers)
    /\ helpers[c].proc \in {"running", "ended"}
    /\ ~helpers[c].exited
    /\ pending < MaxPending
    /\ helpers' = [helpers EXCEPT ![c].exited = TRUE,
                                  ![c].proc = IF @ = "running" THEN "ended" ELSE @]
    /\ pending' = onExit(quitting, pending)
    /\ UNCHANGED << appState, quitting, child, idx, candidates, program, observer >>

AnyChildExit == \E c \in 1 .. Len(helpers) : ChildExit(c)

\* app.on('before-quit'): quitting = true, and child.kill() if there is a
\* child not yet killed. A kill that fails on a running helper emits
\* 'error' on the child at once; on a helper that is gone it does nothing.
BeforeQuit(killOk) ==
    /\ appState = "ready"
    /\ pending < MaxPending
    /\ quitting' = TRUE
    /\ IF child # 0 /\ ~helpers[child].killed /\ helpers[child].proc = "running"
       THEN IF killOk
            THEN /\ helpers' = [helpers EXCEPT ![child].killed = TRUE,
                                               ![child].proc = "ended"]
                 /\ UNCHANGED << idx, pending >>
            ELSE /\ helpers' = [helpers EXCEPT ![child].errored = TRUE]
                 /\ idx' = onError(idx, candidates, pending).idx
                 /\ pending' = onError(idx, candidates, pending).pending
       ELSE UNCHANGED << helpers, idx, pending >>
    /\ UNCHANGED << appState, child, candidates, program, observer >>

\* The application's process ends after before-quit: its timers die with it.
AppExit ==
    /\ appState = "ready"
    /\ quitting
    /\ appState' = "exited"
    /\ UNCHANGED << quitting, child, helpers, idx, candidates, pending,
                    program, observer >>

(* --------------------------- specifications ---------------------------- *)

TickOn(outcomes) == \E openOk, writeOk \in outcomes : Tick(openOk, writeOk)

\* Spec: the life of a session on the hosts of Hosts, where any open and any
\* write may fail, with the reports of the power/mute interface.
LifeReports == {PowerOn, PowerOff, MuteOn, Unknown7}
Init == InitWith({0}, {<< >>}, {2})
Next ==
    \/ ConstructOn(Hosts, AnyOutcome)
    \/ DataFrom(LifeReports, AnyOutcome)
    \/ TickOn(AnyOutcome)
    \/ IoError
    \/ Shutdown
Spec == Init /\ [][Next]_vars

\* SpecChannels: a session on a healthy host with every kind of report.
HealthyHosts == { << DevStatus, DevPowerMute >> }
InitChannels == InitWith({0}, {<< >>}, {2})
NextChannels ==
    \/ ConstructOn(HealthyHosts, Healthy)
    \/ DataFrom(Reports, Healthy)
    \/ TickOn(Healthy)
SpecChannels == InitChannels /\ [][NextChannels]_vars

\* SpecHeartbeat: the status reports of a session on a healthy host, and time
\* passing.
StatusReports ==
    { StatusReport(15, 15, 60), StatusReport(20, 15, 130),
      StatusReport(15, 16, 5), StatusReport(15, 17, 60) }
InitHeartbeat == InitWith({0}, {<< >>}, IntervalChoices)
NextHeartbeat ==
    \/ ConstructOn(HealthyHosts, Healthy)
    \/ DataFrom(StatusReports, Healthy)
    \/ Advance
SpecHeartbeat == InitHeartbeat /\ [][NextHeartbeat]_vars

\* SpecScenario: the first MaxLog reports of the power/mute interface of a
\* session, logged; on a host with a status interface and on one without,
\* where any open and any write may fail.
ScenarioReports == {PowerOn, PowerOff, MuteOn}
ScenarioHosts == { << DevStatus >>, << DevPowerMute >> }
InitScenario == InitWith({MaxLog}, {<< >>}, {2})
NextScenario ==
    \/ ConstructOn(ScenarioHosts, AnyOutcome)
    \/ DataFrom(ScenarioReports, AnyOutcome)
    \/ TickOn(AnyOutcome)
SpecScenario == InitScenario /\ [][NextScenario]_vars

\* SpecSelect: construction on every enumeration of at most MaxDevices
\* interfaces of the catalogue.
NextSelect ==
    \/ ConstructOn(Enumerations, AnyOutcome)
    \/ TickOn(AnyOutcome)
    \/ Shutdown
SpecSelect == Init /\ [][NextSelect]_vars

\* SpecBattery: one status report, drawn from every value of data[4] and
\* the charge states of ChargeStates, delivered to a session on a healthy
\* host, any number of times and between reports of another value, while
\* time passes.
ChargeStates == {13, 14, 15, 16}
Probes == {StatusReport(15, b3, b4) : b3 \in ChargeStates, b4 \in Byte}
          \cup {StatusReport(20, b3, b4) : b3 \in {0, 14, 15, 16, 255}, b4 \in {0, 5, 130}}
StatusHost == { << DevStatus >> }
InitBattery == InitWith({0}, Probes, {2})
NextBattery ==
    \/ ConstructOn(StatusHost, Healthy)
    \/ DataFrom({probe, StatusReport(15, 15, 60)}, Healthy)
    \/ Advance
SpecBattery == InitBattery /\ [][NextBattery]_vars

\* SpecFrames: reports of every length and kind delivered to a session on a
\* healthy host: the reports of the power/mute and volume
\* interfaces, status reports of both lengths, and frames of the lengths of
\* UnknownLengths whose bytes are those of a power-off and of a charging
\* report.
UnknownLengths == {1, 3, 4, 6, 14, 16, 19, 21}
Frame(n) ==
    [k \in 1 .. n |-> IF k = 1 THEN 100 ELSE IF k = 2 THEN 3
                       ELSE IF k = 4 THEN 16 ELSE 30]
FrameReports ==
    PowerReports \cup { VolumeUp, VolumeDown, VolumeNone }
    \cup { Frame(n) : n \in UnknownLengths }
    \cup { StatusReport(15, cs, m) : cs \in {15, 16, 17}, m \in {0, 5, 60} }
    \cup { StatusReport(20, 16, 20), StatusReport(20, 15, 60) }
InitFrames == InitWith({0}, {<< >>}, {2})
NextFrames ==
    \/ ConstructOn(StatusHost, Healthy)
    \/ DataFrom(FrameReports, Healthy)
SpecFrames == InitFrames /\ [][NextFrames]_vars

\* SpecShared: the first MaxLog reports of a session on a healthy host with
\* two interfaces, either of which may deliver each report, logged with the
\* interface that delivered them.
SharedReports == {PowerOff, MuteOn, MuteOff}
InitShared == InitWith({MaxLog}, {<< >>}, {2})
NextShared ==
    \/ ConstructOn(HealthyHosts, Healthy)
    \/ DataFrom(SharedReports, Healthy)
SpecShared == InitShared /\ [][NextShared]_vars

\* SpecAlways: the reports that decode to a signal of each channel,
\* delivered to a session on a healthy host while time passes.
AlwaysReports ==
    { PowerOn, PowerOff, MuteOn, VolumeUp, VolumeDown,
      StatusReport(15, 16, 5), StatusReport(20, 16, 60),
      StatusReport(15, 15, 60) }
InitAlways == InitWith({0}, {<< >>}, {2})
NextAlways ==
    \/ ConstructOn(StatusHost, Healthy)
    \/ DataFrom(AlwaysReports, Healthy)
    \/ Advance
SpecAlways == InitAlways /\ [][NextAlways]_vars

\* SpecTray: the tray shell supervising its helper: launches, helper exits,
\* failed spawns and kills, relaunch timers, and quitting.
NextTray ==
    \/ \E n \in CandidateCounts : \E spawnOk \in BOOLEAN : StartHelper(n, spawnOk)
    \/ \E spawnOk \in BOOLEAN : TimerFires(spawnOk)
    \/ AnyChildExit
    \/ \E killOk \in BOOLEAN : BeforeQuit(killOk)
    \/ AppExit
SpecTray == Init /\ [][NextTray]_vars

(* ------------------------------- claims -------------------------------- *)

nonError(evs) == SelectSeq(evs, LAMBDA e : e.ch # "error")
lastData == IF inp.op = "data" THEN inp.data ELSE << >>

\* C1: whatever the session state, a report (0x64,0x03) emits no power event
\* but 'off' (and emits it when dedupe is off or the last power value was not
\* 'off') and leaves no timer armed, and a report (0x64,0x01) emits no power
\* event but 'on' and leaves the timer armed; and when the first three
\* reports of a session are (0x64,0x01), (0x64,0x03), (0x64,0x01), their
\* events other than errors are exactly power 'on', 'off', 'on', and the
\* timer is armed, disarmed, armed after them.
C1_PowerCoupling ==
    /\ lastData = PowerOff =>
          /\ ~interval /\ timers = 0
          /\ nonError(emitted) \in {<< >>, << EvPower("off") >>}
          /\ ~dedupe => nonError(emitted) = << EvPower("off") >>
          /\ shown["power"] = Some("off")
    /\ lastData = PowerOn =>
          /\ interval /\ timers = 1
          /\ nonError(emitted) \in {<< >>, << EvPower("on") >>}
          /\ ~dedupe => nonError(emitted) = << EvPower("on") >>
          /\ shown["power"] = Some("on")
    /\ (/\ Len(log) >= 3
        /\ log[1].data = PowerOn /\ log[2].data = PowerOff
        /\ log[3].data = PowerOn) =>
          /\ nonError(log[1].emitted) = << EvPower("on") >>
          /\ nonError(log[2].emitted) = << EvPower("off") >>
          /\ nonError(log[3].emitted) = << EvPower("on") >>
          /\ log[1].armed /\ ~log[2].armed /\ log[3].armed

\* C1 witness: the three reports of the scenario have arrived, the last one
\* just now.
C1_Witness ==
    /\ Len(log) = 3
    /\ log[1].data = PowerOn /\ log[2].data = PowerOff /\ log[3].data = PowerOn
    /\ lastData = PowerOn
    /\ interval

\* C2: with dedupe enabled, on each of the channels power, muted and
\* charging, exactly one event has been emitted since the decoded value last
\* changed, however many reports repeated it, and the value emitted last is
\* the value decoded last: a report whose value equals the last emitted one
\* emits nothing, one whose value differs emits once.
C2_DedupeOncePerRun ==
    dedupe =>
        \A ch \in Channels :
            seen[ch] # None => run[ch] = 1 /\ shown[ch] = seen[ch]

\* C2 witness: a mute report repeating the last muted value has just been
\* suppressed, after the power and charging channels decoded values too.
C2_Witness ==
    /\ dedupe
    /\ lastData = MuteOn /\ emitted = << >>
    /\ seen["muted"] = Some("true") /\ run["muted"] = 1
    /\ seen["power"] # None /\ seen["charging"] # None

percentageOf(data) ==
    calculatePercentage(chargeStateOf(data), magicValueOf(data))

\* C3: with dedupe enabled, a status report that decodes to the value of the
\* last battery event emits no battery event while less than
\* batteryMinIntervalMs has passed since that event, and exactly one once
\* that much has passed; a report that decodes to another value (or the
\* first one) emits exactly one battery event at once.
C3_BatteryHeartbeat ==
    [][ (/\ dedupe
         /\ inp'.op = "data"
         /\ isStatusReport(inp'.data)
         /\ percentageOf(inp'.data) # None) =>
           LET v == percentageOf(inp'.data)
               bat == onChannel(emitted', "battery")
           IN  IF lastEv # None /\ lastEv[1].val = v[1]
                  /\ now - lastEv[1].at < batteryMinIntervalMs
               THEN bat = << >>
               ELSE bat = << EvBattery(v) >> ]_vars

\* C3 witness: a heartbeat: a battery event repeating the value of the one
\* before it, emitted now, the interval after time 0 at the earliest.
C3_Witness ==
    /\ dedupe
    /\ lastEv # None /\ lastEv[1].again /\ lastEv[1].at = now
    /\ onChannel(emitted, "battery") # << >>
    /\ now >= batteryMinIntervalMs

openOn(path) ==
    {h \in 1 .. Len(handles) : handles[h].open /\ handles[h].path = path}
paths == {handles[h].path : h \in 1 .. Len(handles)}
hasStatusInterface == statusInfo(devices) # 0
bootstrapRan ==
    inp.op \in {"construct", "tick"} \/ lastData = PowerOn

\* C4 (as claimed): once shutdown has run, every handle the session opened
\* is closed, no timer is armed and no wake-up is written.
C4_ShutdownReleasesAll ==
    phase = "closed" =>
        /\ \A h \in 1 .. Len(handles) : ~handles[h].open
        /\ ~interval /\ timers = 0
        /\ wake \notin {"written", "write-failed"}

\* C5 (as claimed): at most one handle is open per interface path.
C5_OneHandlePerPath ==
    \A p \in paths : Cardinality(openOn(p)) <= 1

\* C5 (amended): on a host whose interfaces have distinct paths, at most one
\* handle is open per path other than the status interface's, and at most
\* two on the status interface's path (its report stream and the status
\* handle); the session holds at most one status handle, and it is on the
\* status interface's path.
C5_OneHandlePerRole ==
    /\ \A p \in paths :
          Cardinality(openOn(p)) <=
             IF hasStatusInterface /\ p = devices[statusInfo(devices)].path
             THEN 2 ELSE 1
    /\ Len(handles) <= Len(devices) + 1
    /\ bootstrapDevice # None =>
          /\ hasStatusInterface
          /\ handles[bootstrapDevice[1]].path = devices[statusInfo(devices)].path
          /\ bootstrapDevice[1] \notin closedByShutdown

\* C5 witness: the status interface's path is open twice.
C5_Witness ==
    /\ hasStatusInterface
    /\ Cardinality(openOn(devices[statusInfo(devices)].path)) = 2

\* C6 (as claimed): when no selected interface has the status usage, no
\* timer is armed after bootstrap() ran.
C6_NoStatusNoTimer ==
    (phase \in {"running", "closed"} /\ ~hasStatusInterface /\ bootstrapRan) =>
        ~interval /\ timers = 0

\* C6 (amended): when no selected interface has the status usage, a call of
\* bootstrap() emits the error event, opens no status handle and writes no
\* wake-up, and leaves exactly one repeating timer armed, so that the lookup
\* is made again on every tick as well as on the next power-on report.
C6_NoStatusErrorAndTimer ==
    (phase \in {"running", "closed"} /\ ~hasStatusInterface) =>
        /\ bootstrapDevice = None
        /\ wake \in {"none", "not-found"}
        /\ bootstrapRan =>
              /\ wake = "not-found"
              /\ onChannel(emitted, "error") # << >>
              /\ emitted[1] = EvError("status-not-found")
              /\ interval /\ timers = 1

\* C6 witness: a tick has made the lookup again, and failed again.
C6_Witness ==
    /\ ~hasStatusInterface
    /\ inp.op = "tick" /\ wake = "not-found"
    /\ interval

\* C7: when bootstrap() fails to open the status handle or to write the
\* wake-up, it emits an error event, the session goes on, and exactly one
\* repeating timer is armed after the call, so that a tick makes the attempt
\* again; a handle whose open failed is not kept as the status handle.
C7_FailureLeavesTimerArmed ==
    /\ wake \in {"open-failed", "write-failed"} =>
          /\ phase \in {"running", "closed"}
          /\ bootstrapRan
          /\ onChannel(emitted, "error") # << >>
          /\ interval /\ timers = 1
    /\ wake = "open-failed" =>
          /\ bootstrapDevice = None
          /\ emitted[1] = EvError("open")
    /\ wake = "write-failed" =>
          /\ bootstrapDevice # None
          /\ EvError("write") \in Range(emitted)
    /\ inp.op = "tick" => wake # "none"

\* C7 witness: the open of the status handle has failed again on a tick.
C7_Witness ==
    /\ inp.op = "tick"
    /\ wake = "open-failed"
    /\ bootstrapDevice = None /\ interval

\* What the catalogue's interfaces are: of the vendor, of a known product,
\* and carrying a product name that holds 'cloud flight wireless' in some case.
ofVendor(d) == d.vendorId = 2385
ofKnownProduct(d) == d.productId = 5828 \/ d.productId = 5923
carriesName(d) == d.product = Some(NameFlight)

\* C8: construction selects the vendor's interfaces of a known product id;
\* only if there are none, the vendor's interfaces whose product name holds
\* 'cloud flight wireless' in any case; and if there are none either, it
\* fails: no session, no handle opened, no timer armed, no wake-up written,
\* no event emitted.
C8_SelectionBySet ==
    /\ inp.op = "construct" =>
          LET byId == SelectSeq(inp.hid, LAMBDA d : ofVendor(d) /\ ofKnownProduct(d))
              byName == SelectSeq(inp.hid, LAMBDA d : ofVendor(d) /\ carriesName(d))
              expected == IF byId # << >> THEN byId ELSE byName
          IN  IF expected = << >>
              THEN phase = "failed"
              ELSE phase = "running" /\ devices = expected
    /\ phase = "failed" =>
          /\ devices = << >> /\ handles = << >> /\ streams = << >>
          /\ bootstrapDevice = None
          /\ ~interval /\ timers = 0
          /\ wake = "none" /\ emitted = << >>

\* C8 witness: construction has failed on an enumeration of two interfaces
\* of the vendor, neither of a known product nor carrying the name.
C8_Witness ==
    /\ phase = "failed"
    /\ inp.op = "construct"
    /\ Len(inp.hid) = 2
    /\ \A i \in 1 .. 2 : ofVendor(inp.hid[i])

batteryEvents(evs) == onChannel(evs, "battery")

C10_PercentageByMagicValue ==
    isStatusReport(lastData) =>
        LET cs == lastData[4]
            m1 == IF lastData[5] # 0 THEN lastData[5] ELSE lastData[4]
            p1 == calculatePercentage(cs, m1)
            expected == IF p1 = None THEN << >> ELSE << EvBattery(p1) >>
        IN  /\ ~dedupe => batteryEvents(emitted) = expected
            /\ dedupe => batteryEvents(emitted) \in {<< >>, expected}
            /\ (cs \in {14, 15} /\ p1 # None) =>
                  \A m2 \in 0 .. (m1 - 1) :
                      calculatePercentage(cs, m2) # None =>
                          calculatePercentage(cs, m2)[1] <= p1[1]

\* C10 witness: a report with charge state 0x0e and data[4] = 0 has emitted
\* the percentage of the magic value 0x0e.
C10_Witness ==
    /\ lastData = StatusReport(15, 14, 0)
    /\ batteryEvents(emitted) = << EvBattery(Some(10)) >>

\* C11: a charging event is emitted, and lastCharging changed, only by a
\* report of 15 or 20 bytes whose data[3] is 0x10, and then to the value
\* magicValue >= 20 (emitted whenever dedupe is off or the value differs from
\* lastCharging); every other report, of any length and charge state, and
\* every other operation, emits no charging event and leaves lastCharging as
\* it was.
C11_ChargingFrame ==
    [][ LET d == IF inp'.op = "data" THEN inp'.data ELSE << >>
            ch == onChannel(emitted', "charging")
        IN  IF Len(d) \in {15, 20} /\ d[4] = 16
            THEN LET m == IF d[5] # 0 THEN d[5] ELSE d[4]
                     v == EvCharging(m >= 20)
                 IN  /\ ch \in {<< >>, << v >>}
                     /\ (~dedupe \/ lastCharging # Some(m >= 20)) => ch = << v >>
                     /\ lastCharging' = IF ch = << >> THEN lastCharging
                                        ELSE Some(m >= 20)
            ELSE ch = << >> /\ lastCharging' = lastCharging ]_vars

\* C11 witness: with dedupe off, a status report of charge state 0x11 has
\* arrived after the charging state was set, and emitted no charging event.
C11_Witness ==
    /\ ~dedupe
    /\ lastData = StatusReport(15, 17, 60)
    /\ lastCharging = Some(TRUE)
    /\ onChannel(emitted, "charging") = << >>

\* C12: a report emits an unknown event if and only if its length is not 2,
\* 5, 15 or 20; the event carries the report's bytes as they came, it is the
\* only event of the report, whatever the dedupe setting and the reports
\* before it, and the report changes nothing of the session, the scheduler
\* and the last values; and a report of 5 bytes whose data[1] is neither 1
\* nor 2 emits no event at all.
C12_UnknownByLength ==
    [][ inp'.op = "data" =>
          LET d == inp'.data
          IN  /\ IF Len(d) \notin {2, 5, 15, 20}
                 THEN /\ emitted' = << [ch |-> "unknown", val |-> "",
                                        num |-> 0, raw |-> d] >>
                      /\ UNCHANGED << session, scheduler, dedupeState >>
                 ELSE onChannel(emitted', "unknown") = << >>
              /\ (Len(d) = 5 /\ d[2] \notin {1, 2}) => emitted' = << >>
      ]_vars

\* C12 witness: with dedupe on, a frame of 16 bytes with the bytes of a
\* power-off and of a charging report has emitted its unknown event, after a
\* power-off and a charging report set their last values.
C12_Witness ==
    /\ dedupe
    /\ lastData = Frame(16)
    /\ emitted = << EvUnknown(Frame(16)) >>
    /\ lastPower = Some("off") /\ lastCharging # None

\* The value decoded last on channel ch by the logged reports before the
\* k-th, None if none of them decoded one: a function of the reports alone.
priorValue(k, ch) ==
    LET js == {j \in 1 .. (k - 1) : decoded(ch, log[j].data) # None}
    IN  IF js = {} THEN None
        ELSE decoded(ch, log[CHOOSE j \in js : \A i \in js : i <= j].data)

\* C13: the events of a session and its last values are decided by the
\* reports in their order of arrival, whichever interface delivers each: the
\* k-th report emits on a channel exactly when it decodes to a value there
\* and dedupe is off or the value differs from the one decoded last on that
\* channel by the reports before it, from any interface, and it emits on no
\* other channel; and the last value of each channel is the one decoded last
\* on that channel, untouched by the reports of another channel.
C13_SharedState ==
    /\ \A k \in 1 .. Len(log) : \A ch \in {"power", "muted"} :
          LET v == decoded(ch, log[k].data)
              es == onChannel(log[k].emitted, ch)
          IN  IF v = None \/ (dedupe /\ v = priorValue(k, ch))
              THEN es = << >>
              ELSE Len(es) = 1 /\ es[1].val = v[1]
    /\ Len(log) < logCap =>
          /\ lastPower = priorValue(Len(log) + 1, "power")
          /\ lastMuted = IF priorValue(Len(log) + 1, "muted") = None THEN None
                         ELSE Some(priorValue(Len(log) + 1, "muted")[1] = "true")

\* C13 witness: interface 1 delivered a power-off, interface 2 then a mute
\* report, which was emitted, and interface 1 the same mute report again,
\* which dedupe suppressed.
C13_Witness ==
    /\ dedupe
    /\ Len(log) = 3
    /\ log[1].dev = 1 /\ log[1].data = PowerOff
    /\ log[2].dev = 2 /\ log[2].data = MuteOn
    /\ log[2].emitted = << EvMuted(TRUE) >>
    /\ log[3].dev = 1 /\ log[3].data = MuteOn /\ log[3].emitted = << >>

\* C14: with dedupe off, a report that decodes to a power, muted, charging
\* or battery signal emits exactly that event, whatever the last values and
\* the time since the last battery event; and with dedupe on or off a volume
\* report that decodes to a direction emits it.
C14_AlwaysEmits ==
    inp.op = "data" =>
        LET d == inp.data
        IN  /\ (~dedupe /\ Len(d) = 2) =>
                  IF d = << 100, 3 >>
                  THEN emitted = << EvPower("off") >>
                  ELSE IF d = << 100, 1 >>
                  THEN emitted = << EvPower("on") >>
                  ELSE emitted = << EvMuted(d = << 101, 4 >>) >>
            /\ (~dedupe /\ Len(d) \in {15, 20}) =>
                  LET m == IF d[5] # 0 THEN d[5] ELSE d[4]
                  IN  /\ d[4] = 16 =>
                          onChannel(emitted, "charging") = << EvCharging(m >= 20) >>
                      /\ percentageOf(d) # None =>
                          onChannel(emitted, "battery") = << EvBattery(percentageOf(d)) >>
            /\ (Len(d) = 5 /\ d[2] = 1) => emitted = << EvVolume("up") >>
            /\ (Len(d) = 5 /\ d[2] = 2) => emitted = << EvVolume("down") >>

\* C14 witness: with dedupe off, a status report has emitted the charging
\* value and the percentage of the battery event before it again, less than
\* batteryMinIntervalMs after time 0.
C14_Witness ==
    /\ ~dedupe
    /\ lastData = StatusReport(15, 16, 5)
    /\ lastEv # None /\ lastEv[1].again /\ lastEv[1].at = now
    /\ now < batteryMinIntervalMs
    /\ emitted = << EvCharging(FALSE), EvBattery(Some(100)) >>

failedToOpen == {i \in 1 .. Len(streams) : streams[i] = 0}
openErrors(evs) == SelectSeq(evs, LAMBDA e : e = EvError("open"))

\* C15: when opens of selected interfaces fail at construction, construction
\* still gives a running session; each failed open is reported as one error
\* event (next to the one of the status handle, if its open failed too); an
\* interface whose open failed never delivers a report; and every interface
\* that opened has its own handle, open until shutdown, through which its
\* reports reach the decoder.
C15_OpenFailureSkipsInterface ==
    phase \in {"running", "closed"} =>
        /\ Len(streams) = Len(devices)
        /\ inp.op = "construct" =>
              /\ phase = "running"
              /\ Len(openErrors(emitted)) =
                    Cardinality(failedToOpen)
                    + (IF wake = "open-failed" THEN 1 ELSE 0)
        /\ inp.op = "data" => inp.dev \notin failedToOpen
        /\ \A i \in 1 .. Len(streams) : i \notin failedToOpen =>
              /\ streams[i] \in 1 .. Len(handles)
              /\ handles[streams[i]].path = devices[i].path
              /\ phase = "running" => handles[streams[i]].open
              /\ \A j \in 1 .. Len(streams) : streams[j] = streams[i] => j = i

\* C15 witness: the first interface failed to open, and the second has
\* delivered a report that was decoded and emitted.
C15_Witness ==
    /\ phase = "running"
    /\ failedToOpen = {1}
    /\ inp.op = "data" /\ inp.dev = 2
    /\ nonError(emitted) # << >>

\* The edges the band tables of charge states 0x0f and 0x0e name.
BandEdges0f == {130, 120, 100, 70, 50, 20}
BandEdges0e == {240, 220, 208, 200, 190, 180, 179, 169, 159, 148, 119, 90}

\* C16 (as claimed): a status report whose charge state is 0x0f or 0x0e and
\* whose magic value is an edge of that state's band table yields exactly one
\* percentage: with dedupe off it emits exactly one battery event, and
\* calculatePercentage gives a percentage for it.
C16_EdgesInOneBand ==
    (/\ isStatusReport(lastData)
     /\ \/ lastData[4] = 15 /\ lastData[5] \in BandEdges0f
        \/ lastData[4] = 14 /\ lastData[5] \in BandEdges0e) =>
        /\ percentageOf(lastData) # None
        /\ ~dedupe => Len(batteryEvents(emitted)) = 1

\* C18: after any construction, power reports and ticks, at most one
\* repeating timer is live, and it is the one the variable interval holds:
\* bootstrap() starts none while one is armed, and after a power-off report
\* none is left.
C18_AtMostOneTimer ==
    /\ timers \in {0, 1}
    /\ interval <=> timers = 1
    /\ lastData = PowerOff => timers = 0
    /\ (bootstrapRan /\ phase \in {"running", "closed"}) => timers = 1

\* C18 witness: a power-on report arrived while the timer was armed (dedupe
\* suppressed its event, the last power value being 'on' already), and one
\* timer is live.
C18_Witness ==
    /\ dedupe
    /\ lastData = PowerOn
    /\ nonError(emitted) = << >>
    /\ timers = 1

\* C19 (as claimed): in a session with a status interface the timer is armed
\* exactly when the last power report was not a power-off (or none has come),
\* whether or not dedupe suppressed its event; no wake-up is written while
\* the last power report is a power-off; and every power-on report has its
\* wake-up written.
C19_SchedulerFollowsPower ==
    (phase \in {"running", "closed"} /\ hasStatusInterface) =>
        /\ interval <=> seen["power"] # Some("off")
        /\ wake \in {"written", "write-failed"} => seen["power"] # Some("off")
        /\ lastData = PowerOn => wake \in {"written", "write-failed"}

\* C19 (amended): as claimed, except that a power-on report has its wake-up
\* written only if the status handle is open or opens; when it is not open
\* and its open fails, the report emits an error event and writes nothing,
\* the timer being armed all the same.
C19_SchedulerFollowsPowerOrFails ==
    (phase \in {"running", "closed"} /\ hasStatusInterface) =>
        /\ interval <=> seen["power"] # Some("off")
        /\ wake \in {"written", "write-failed"} => seen["power"] # Some("off")
        /\ lastData = PowerOn =>
              \/ wake \in {"written", "write-failed"}
              \/ /\ wake = "open-failed"
                 /\ bootstrapDevice = None
                 /\ EvError("open") \in Range(emitted)

\* C19 witness: dedupe has suppressed the event of a power-on report that
\* repeats the last power value, and the report has written its wake-up.
C19_Witness ==
    /\ dedupe /\ hasStatusInterface
    /\ lastData = PowerOn
    /\ nonError(emitted) = << >>
    /\ wake = "written" /\ interval

\* C17 (as claimed): once quitting is set, no helper is launched any more.
C17_NoLaunchWhileQuitting ==
    [][ quitting => Len(helpers') = Len(helpers) ]_vars

running == {c \in 1 .. Len(helpers) : helpers[c].proc = "running"}

\* C20 (as claimed): at most one helper is running or pending launch, and a
\* running helper is the one the variable child holds, which before-quit
\* kills.
C20_AtMostOneHelper ==
    /\ Cardinality(running) + pending <= 1
    /\ \A c \in running : c = child

=============================================================================
